---- MODULE Spec2Model ----
(***************************************************************************)
(* bark-secure-proxy: the device store (bolt), the device service and the  *)
(* notice service's Broadcast fan-out, as a state machine.                  *)
(*                                                                          *)
(* Strings whose length matters (secrets, ivs) are sequences of characters, *)
(* so len() is Len.  Strings that are only compared, upper-cased or trimmed *)
(* are TLA+ strings, with ToUpper and TrimSpace given on the strings used.  *)
(* The process is wired by main with a bark client that is never nil        *)
(* (server.go:620-623 exits otherwise), so the "bark client not configured" *)
(* returns are not reachable and are not actions.                           *)
(*                                                                          *)
(* Spec and FairSpec: a Broadcast with the device-service calls between its *)
(* steps, each such call as one step.  DeviceSpec: the device-service calls *)
(* of concurrent requests, every store read, upstream call and store write  *)
(* a step of its own.  LogSpec: AppendNoticeLog under concurrent appends.    *)
(***************************************************************************)
EXTENDS Integers, Sequences, FiniteSets, TLC

\* ------------------------------------------------------------------ bounds
\* Longest deviceKeys list of a NoticeRequest.
MaxKeys == 2
\* Number of Broadcast calls in a behaviour (the delivery log grows with each).
MaxBroadcasts == 1
\* Number of store-changing device-service calls in a behaviour.
MaxDeviceOps == 2
\* Number of AppendNoticeLog calls that run concurrently (LogSpec).
MaxAppenders == 3
\* Instants of the clock after the first one (LogSpec).
MaxClock == 2
\* Number of device-service calls, each on its own handler goroutine
\* (DeviceSpec).
MaxHandlers == 2

\* --------------------------------------------------------- program constants
DeviceStatusActive == "ACTIVE"
DeviceStatusStop == "STOP"
\* aes.BlockSize
BlockSize == 16
\* crypto.key_bytes / crypto.iv_bytes defaults
KeyBytes == 32
IVBytes == 16
\* The only upstream envelope code that counts as success.
CodeOK == 200

\* ------------------------------------------------------------ string values
Rep(c, n) == [i \in 1..n |-> c]
Empty == <<>>

\* strings.ToUpper on the strings the model uses.
ToUpper(s) ==
    CASE s = "active" -> "ACTIVE"
      [] s = "stop" -> "STOP"
      [] s = "stopped" -> "STOPPED"
      [] OTHER -> s

\* TrimSpace that trims nothing.
TrimSpace_Identity(s) == s

\* strings.TrimSpace on the strings the model uses.
TrimSpace(s) ==
    CASE s = " " -> ""
      [] s = " stop " -> "stop"
      [] s = " STOP " -> "STOP"
      [] OTHER -> s

\* ------------------------------------------------------------------ inputs
\* Device tokens, in the byte order bolt iterates the bucket in.
TokenOrder == <<"tok-1", "tok-2">>
Tokens == {TokenOrder[i] : i \in 1..Len(TokenOrder)}

\* Delivery keys the upstream hands out or a request names.
DeviceKeyValues == {"key-A", "key-B"}

\* Credentials a DeviceRequest carries (EncodeKey, IV): omitted, valid,
\* a secret of a bad length, an iv of a bad length.
CredInputs ==
    { [EncodeKey |-> Empty, IV |-> Empty],
      [EncodeKey |-> Rep("k", 16), IV |-> Rep("v", 16)],
      [EncodeKey |-> Rep("k", 5), IV |-> Empty],
      [EncodeKey |-> Rep("k", 16), IV |-> Rep("v", 8)] }

\* What crypto/rand may give GenerateString(n): one string per length here.
GeneratedStrings(n) == {Rep("g", n)}

StatusInputs == {"", "stopped"}
\* handleDeviceActivate / handleDeviceStop pass these two.
UpdateStatusInputs == {DeviceStatusActive, DeviceStatusStop}

BodyInputs == {"", " ", "hello"}

RECURSIVE SeqsUpTo(_, _)
SeqsUpTo(S, n) ==
    IF n = 0 THEN {<<>>}
    ELSE LET shorter == SeqsUpTo(S, n - 1)
         IN shorter \cup {Append(s, x) : s \in {t \in shorter : Len(t) = n - 1}, x \in S}

NoticeRequests ==
    {[Body |-> b, DeviceKeys |-> ks] : b \in BodyInputs, ks \in SeqsUpTo(DeviceKeyValues, MaxKeys)}

\* What the upstream answers to a push: a transport error (http.Do failed,
\* non-200 HTTP status, undecodable body) or a JSON envelope.
PushOutcomes ==
    { [err |-> "push http status 502", resp |-> "nil", Code |-> 0, Message |-> ""],
      [err |-> "", resp |-> "payload", Code |-> 200, Message |-> "success"],
      [err |-> "", resp |-> "payload", Code |-> 400, Message |-> "device key not found"] }

\* What the upstream answers to /register: an error, an envelope with an
\* empty device key, an envelope with a key.
RegisterOutcomes ==
    { [err |-> "register http status 502", DeviceKey |-> ""],
      [err |-> "", DeviceKey |-> ""],
      [err |-> "", DeviceKey |-> "key-A"] }

\* ------------------------------------------------------------------- state
VARIABLES
    devices,        \* bucket "devices": token -> Device (domain = stored tokens)
    noticeLogs,     \* bucket "notice_logs": entries in key (= id) order
    logSeq,         \* the bucket's sequence (NextSequence)
    nOps,           \* device-service calls that changed the store
    nCalls,         \* Broadcast calls made
    bpc,            \* where Broadcast is: idle, pick, fanout, returned
    req,            \* the NoticeRequest of the call
    pickIdx,        \* pickTargets: index of the next deviceKey to resolve
    targets,        \* pickTargets: devices resolved so far
    lookupFailures, \* pickTargets: result
    results,        \* Broadcast: results
    successNum,     \* Broadcast: successNum
    mu,             \* Broadcast: mu, 0 = unlocked, i = held by unit i
    wg,             \* Broadcast: wg counter
    unit,           \* the goroutines: one record per target
    logBase,        \* Len(noticeLogs) when the call started
    ret,            \* what Broadcast returned
    callerGone,     \* the HTTP caller of the Broadcast in progress has timed out
    appender,       \* AppendNoticeLog calls in progress, of units of any Broadcast
    handler,        \* device-service calls in progress, one per HTTP handler goroutine
    query,          \* a NoticeLogService.Query call: its filter, the logs, its result
    cipher,         \* an EncryptToBase64 caller: its inputs and what two calls returned
    statusCall,     \* the latest of a sequence of device-service calls, and the store before it
    clock           \* what time.Now() returns

pureVars == <<query, cipher, statusCall, clock>>

vars == <<devices, noticeLogs, logSeq, nOps, nCalls, bpc, req, pickIdx, targets,
          lookupFailures, results, successNum, mu, wg, unit, logBase, ret, callerGone, appender, handler, pureVars>>

storeVars == <<devices, nOps>>
logVars == <<noticeLogs, logSeq>>
callVars == <<nCalls, req, pickIdx, targets, lookupFailures, results, successNum,
              mu, wg, unit, logBase, ret, callerGone, appender, handler, pureVars>>

AppenderIds == 1..MaxAppenders
\* Concurrent Broadcast calls an appending unit may belong to.
CallIds == {1, 2}
NoLog == [ID |-> 0, DeviceKey |-> "", Body |-> "", Result |-> "", Status |-> "",
          CreatedAt |-> 0]
NoAppend == [pc |-> "idle", call |-> 0, log |-> NoLog, err |-> ""]

HandlerIds == 1..MaxHandlers
NoDeviceRequest == [DeviceToken |-> "", DeviceKey |-> "", EncodeKey |-> <<>>, IV |-> <<>>,
                    Status |-> ""]
\* A handler goroutine that has no device-service call yet.  got is what
\* GetDevice returned to the call, device the record it holds, registers and
\* writes count its bark.Register and store.UpsertDevice calls, err and key
\* are what it returns (key: the delivery key of RegisterDevice's response).
NoHandler ==
    [pc |-> "idle", op |-> "", r |-> NoDeviceRequest,
     got |-> [found |-> FALSE,
              device |-> [DeviceToken |-> "", DeviceKey |-> "", EncodeKey |-> <<>>,
                          IV |-> <<>>, Status |-> ""]],
     device |-> [DeviceToken |-> "", DeviceKey |-> "", EncodeKey |-> <<>>, IV |-> <<>>,
                 Status |-> ""],
     registers |-> 0, writes |-> 0, err |-> "", key |-> ""]

\* No Query call and no EncryptToBase64 caller.
NoQuery == [pc |-> "none"]
NoCipher == [pc |-> "none"]
\* No device-service call made yet.  before is the store the latest call
\* found; stoppedBefore and stopped are the tokens whose stored status was
\* last set, to a status other than ACTIVE, by UpdateStatus: before the call
\* and now.
NoStatusCall == [n |-> 0, op |-> "", r |-> NoDeviceRequest, before |-> <<>>,
                 stoppedBefore |-> {}, stopped |-> {}]

NoRequest == [Body |-> "", DeviceKeys |-> <<>>]
NoSummary == [SendNum |-> 0, SuccessNum |-> 0]
NoReturn == [err |-> "", summary |-> NoSummary, results |-> <<>>]

\* The store, the services and the handlers as main leaves them.
Booted ==
    /\ devices = <<>>
    /\ noticeLogs = <<>>
    /\ logSeq = 0
    /\ nOps = 0
    /\ nCalls = 0
    /\ bpc = "idle"
    /\ req = NoRequest
    /\ pickIdx = 0
    /\ targets = <<>>
    /\ lookupFailures = <<>>
    /\ results = <<>>
    /\ successNum = 0
    /\ mu = 0
    /\ wg = 0
    /\ unit = <<>>
    /\ logBase = 0
    /\ ret = NoReturn
    /\ callerGone = FALSE
    /\ appender = [p \in AppenderIds |-> NoAppend]
    /\ handler = [h \in HandlerIds |-> NoHandler]

Init == Booted /\ query = NoQuery /\ cipher = NoCipher /\ statusCall = NoStatusCall
        /\ clock = 0

\* ------------------------------------------------------------- bolt store
NewDevice(token) ==
    [DeviceToken |-> token, DeviceKey |-> "", EncodeKey |-> Empty, IV |-> Empty,
     Status |-> ""]

NotFound == [found |-> FALSE, device |-> NewDevice("")]

\* The stored tokens in the order bkt.ForEach visits them.
StoredOrder(devs) == SelectSeq(TokenOrder, LAMBDA t : t \in DOMAIN devs)

\* getByKey: the first device, in bucket order, that the matcher accepts.
\* The matcher is given as its verdict on each stored device (by token).
getByKey(devs, matcher) ==
    LET hits == SelectSeq(StoredOrder(devs), LAMBDA t : matcher[t])
    IN IF hits = <<>> THEN NotFound ELSE [found |-> TRUE, device |-> devs[hits[1]]]

\* GetDevice: its matcher accepts every device.
GetDevice(devs, token) == getByKey(devs, [t \in DOMAIN devs |-> TRUE])

GetDeviceByKey(devs, key) == getByKey(devs, [t \in DOMAIN devs |-> devs[t].DeviceKey = key])

\* list: copies of the devices the filter accepts, in bucket order.
list(devs, filter) ==
    LET kept == SelectSeq(StoredOrder(devs), LAMBDA t : filter[t])
    IN [i \in 1..Len(kept) |-> devs[kept[i]]]

\* ListActiveDevices with ListDevices' filter.
ListActiveDevices_All(devs) == list(devs, [t \in DOMAIN devs |-> TRUE])

IsActiveStatus(st) ==
    LET status == ToUpper(TrimSpace(st))
    IN status = "" \/ status = DeviceStatusActive

ListActiveDevices(devs) == list(devs, [t \in DOMAIN devs |-> IsActiveStatus(devs[t].Status)])

\* UpsertDevice: Put under the record's own DeviceToken.
UpsertDevice(devs, device) == (device.DeviceToken :> device) @@ devs

\* bkt.NextSequence handing out the last id again.
NextSequence_Stale(seq) == IF seq = 0 THEN 1 ELSE seq

\* bkt.NextSequence of the notice_logs bucket, inside the update transaction.
NextSequence(seq) == seq + 1

\* bkt.Put(key, payload) writing over the newest stored entry.
PutLog_OverNewest(logs, id, entry) ==
    IF logs = <<>> THEN (id :> entry) @@ logs ELSE (Len(logs) :> entry) @@ logs

\* bkt.Put(key, payload) with key = the id: whatever the key held is replaced.
PutLog(logs, id, entry) == (id :> entry) @@ logs

\* ---------------------------------------------------------- device service
firstNonEmpty(a, b) ==
    IF TrimSpace(a) # "" THEN a
    ELSE IF TrimSpace(b) # "" THEN b
    ELSE ""

\* isValidKeyLength as an upper bound only.
isValidKeyLength_UpTo32(key) == Len(key) <= 32

isValidKeyLength(key) == Len(key) \in {16, 24, 32}

\* DeviceService.Upsert lines 86-137: the merge of the request into the record
\* GetDevice returned (or a new one) and the length checks.  genKey/genIV are
\* what GenerateString gives.
UpsertMerge(devs, r, genKey, genIV) ==
    IF TrimSpace(r.DeviceToken) = "" THEN [err |-> "deviceToken is required", device |-> NewDevice("")]
    ELSE
    LET got == GetDevice(devs, r.DeviceToken)
        d0 == IF got.found THEN got.device ELSE NewDevice(r.DeviceToken)
        d1 == [d0 EXCEPT !.Status = firstNonEmpty(ToUpper(r.Status), DeviceStatusActive)]
        d2 == [d1 EXCEPT !.EncodeKey =
                  IF r.EncodeKey = Empty
                  THEN (IF d1.EncodeKey = Empty THEN genKey ELSE d1.EncodeKey)
                  ELSE r.EncodeKey]
        d3 == [d2 EXCEPT !.IV =
                  IF r.IV = Empty
                  THEN (IF d2.IV = Empty THEN genIV ELSE d2.IV)
                  ELSE r.IV]
        d4 == IF r.DeviceKey # "" THEN [d3 EXCEPT !.DeviceKey = r.DeviceKey] ELSE d3
    IN IF ~isValidKeyLength(d4.EncodeKey)
       THEN [err |-> "encodeKey must be 16, 24 or 32 characters", device |-> d4]
       ELSE IF Len(d4.IV) # IVBytes
       THEN [err |-> "iv must be 16 characters", device |-> d4]
       ELSE [err |-> "", device |-> d4]

\* Lines 139-151 without the check for an empty key.
UpsertRegister_AcceptsEmptyKey(d, reg) ==
    IF reg.err # "" THEN [err |-> reg.err, device |-> d]
    ELSE [err |-> "", device |-> [d EXCEPT !.DeviceKey = reg.DeviceKey]]

\* Lines 139-151: a device without a delivery key adopts the one the upstream
\* registers (reg), or Upsert fails.
UpsertRegister(d, reg) ==
    IF reg.err # "" THEN [err |-> reg.err, device |-> d]
    ELSE IF reg.DeviceKey = ""
    THEN [err |-> "register failed: empty device key", device |-> d]
    ELSE [err |-> "", device |-> [d EXCEPT !.DeviceKey = reg.DeviceKey]]

DeviceRequests ==
    {[DeviceToken |-> t, DeviceKey |-> k, EncodeKey |-> c.EncodeKey, IV |-> c.IV,
      Status |-> st] :
        t \in Tokens, k \in DeviceKeyValues \cup {""}, c \in CredInputs, st \in StatusInputs}

\* DeviceService.Upsert
Upsert ==
    /\ nOps < MaxDeviceOps
    /\ \E r \in DeviceRequests, genKey \in GeneratedStrings(KeyBytes),
          genIV \in GeneratedStrings(IVBytes) :
          LET m == UpsertMerge(devices, r, genKey, genIV)
          IN IF m.err # ""
             THEN UNCHANGED storeVars
             ELSE IF m.device.DeviceKey = ""
             THEN \E reg \in RegisterOutcomes :
                      LET g == UpsertRegister(m.device, reg)
                      IN IF g.err # ""
                         THEN UNCHANGED storeVars
                         ELSE /\ devices' = UpsertDevice(devices, g.device)
                              /\ nOps' = nOps + 1
             ELSE /\ devices' = UpsertDevice(devices, m.device)
                  /\ nOps' = nOps + 1
    /\ UNCHANGED <<logVars, bpc, callVars>>

\* DeviceService.UpdateStatus lines 185-192: the record GetDevice returned
\* with its new status.
UpdateStatusMerge(devs, token, status) ==
    LET got == GetDevice(devs, token)
        st == ToUpper(TrimSpace(status))
    IN IF ~got.found THEN [err |-> "not found", device |-> got.device]
       ELSE [err |-> "",
             device |-> [got.device EXCEPT !.Status =
                            IF st = "" THEN DeviceStatusActive ELSE st]]

\* DeviceService.UpdateStatus
UpdateStatus ==
    /\ nOps < MaxDeviceOps
    /\ \E token \in Tokens, status \in UpdateStatusInputs :
          LET m == UpdateStatusMerge(devices, token, status)
          IN IF m.err # ""
             THEN UNCHANGED storeVars
             ELSE /\ devices' = UpsertDevice(devices, m.device)
                  /\ nOps' = nOps + 1
    /\ UNCHANGED <<logVars, bpc, callVars>>

\* DeviceService.RegisterDevice lines 56-66: the record GetDevice returned
\* for the response's token (or a new one) with the response's delivery key.
\* The upstream echoes the token it was sent.
RegisterMerge(devs, deviceToken, key) ==
    LET got == GetDevice(devs, deviceToken)
        d0 == IF got.found THEN got.device ELSE NewDevice(deviceToken)
        d1 == [d0 EXCEPT !.DeviceKey = key]
    IN IF d1.Status = "" THEN [d1 EXCEPT !.Status = DeviceStatusActive] ELSE d1

\* DeviceService.RegisterDevice
RegisterDevice ==
    /\ nOps < MaxDeviceOps
    /\ \E deviceToken \in Tokens, reg \in RegisterOutcomes :
          IF reg.err # "" \/ reg.DeviceKey = ""
          THEN UNCHANGED storeVars
          ELSE /\ devices' = UpsertDevice(devices, RegisterMerge(devices, deviceToken,
                                                                 reg.DeviceKey))
               /\ nOps' = nOps + 1
    /\ UNCHANGED <<logVars, bpc, callVars>>

\* ------------------------------------------- device service, call by call
\* The same three calls as they run on handler goroutines: each store read
\* (GetDevice), upstream call (bark.Register) and store write (UpsertDevice)
\* is a step, so calls of different requests interleave.
deviceVars == <<logVars, nOps, bpc, nCalls, req, pickIdx, targets, lookupFailures,
                results, successNum, mu, wg, unit, logBase, ret, callerGone, appender,
                pureVars>>

\* A handler receives a request and calls the device service.
DeviceCall(h) ==
    /\ handler[h].pc = "idle"
    /\ \/ \E r \in DeviceRequests :
             handler' = [handler EXCEPT ![h] =
                 [@ EXCEPT !.pc = "read", !.op = "Upsert", !.r = r]]
       \/ \E token \in Tokens, status \in UpdateStatusInputs :
             handler' = [handler EXCEPT ![h] =
                 [@ EXCEPT !.pc = "read", !.op = "UpdateStatus",
                           !.r = [NoDeviceRequest EXCEPT !.DeviceToken = token,
                                                         !.Status = status]]]
       \/ \E token \in Tokens :
             handler' = [handler EXCEPT ![h] =
                 [@ EXCEPT !.pc = IF TrimSpace(token) = "" THEN "done" ELSE "register",
                           !.err = IF TrimSpace(token) = "" THEN "deviceToken is required"
                                   ELSE "",
                           !.op = "RegisterDevice",
                           !.r = [NoDeviceRequest EXCEPT !.DeviceToken = token]]]
    /\ UNCHANGED <<devices, deviceVars>>

\* GetDevice and what the call does with the record before it goes on:
\* Upsert lines 86-137, UpdateStatus lines 185-192, RegisterDevice lines 56-66.
DeviceRead(h) ==
    /\ handler[h].pc = "read"
    /\ LET c == handler[h]
           got == GetDevice(devices, c.r.DeviceToken)
       IN CASE c.op = "Upsert" ->
                 \E genKey \in GeneratedStrings(KeyBytes), genIV \in GeneratedStrings(IVBytes) :
                     LET m == UpsertMerge(devices, c.r, genKey, genIV)
                     IN handler' = [handler EXCEPT ![h] =
                            [@ EXCEPT !.got = got, !.device = m.device, !.err = m.err,
                                      !.pc = IF m.err # "" THEN "done"
                                             ELSE IF m.device.DeviceKey = "" THEN "register"
                                             ELSE "write"]]
            [] c.op = "UpdateStatus" ->
                 LET m == UpdateStatusMerge(devices, c.r.DeviceToken, c.r.Status)
                 IN handler' = [handler EXCEPT ![h] =
                        [@ EXCEPT !.got = got, !.device = m.device, !.err = m.err,
                                  !.pc = IF m.err # "" THEN "done" ELSE "write"]]
            [] c.op = "RegisterDevice" ->
                 handler' = [handler EXCEPT ![h] =
                     [@ EXCEPT !.got = got,
                               !.device = RegisterMerge(devices, c.r.DeviceToken, c.key),
                               !.pc = "write"]]
    /\ UNCHANGED <<devices, deviceVars>>

\* bark.Register answers: Upsert lines 139-151, RegisterDevice lines 49-55.
DeviceRegister(h) ==
    /\ handler[h].pc = "register"
    /\ \E reg \in RegisterOutcomes :
          LET c == handler[h]
          IN CASE c.op = "Upsert" ->
                    LET g == UpsertRegister(c.device, reg)
                    IN handler' = [handler EXCEPT ![h] =
                           [@ EXCEPT !.registers = @ + 1, !.device = g.device, !.err = g.err,
                                     !.pc = IF g.err # "" THEN "done" ELSE "write"]]
               [] c.op = "RegisterDevice" ->
                    handler' = [handler EXCEPT ![h] =
                        [@ EXCEPT !.registers = @ + 1, !.err = reg.err,
                                  !.key = IF reg.err # "" THEN "" ELSE reg.DeviceKey,
                                  !.pc = IF reg.err # "" \/ reg.DeviceKey = "" THEN "done"
                                         ELSE "read"]]
    /\ UNCHANGED <<devices, deviceVars>>

\* store.UpsertDevice, and the call returns.
DeviceWrite(h) ==
    /\ handler[h].pc = "write"
    /\ devices' = UpsertDevice(devices, handler[h].device)
    /\ handler' = [handler EXCEPT ![h] = [@ EXCEPT !.writes = @ + 1, !.pc = "done"]]
    /\ UNCHANGED deviceVars

\* ------------------------------------------------------------------ crypto
\* pkcs7Pad: padding bytes, each of value padding, follow the data; data that
\* fills its last block gets a whole block of them.
pkcs7Pad_OnlyPartialBlocks(data, blockSize) ==
    LET padding == (blockSize - (Len(data) % blockSize)) % blockSize
    IN data \o Rep(padding, padding)

pkcs7Pad(data, blockSize) ==
    LET padding == blockSize - (Len(data) % blockSize)
    IN data \o Rep(padding, padding)

\* cipher.NewCBCEncrypter(block, iv).CryptBlocks(dst, src): len(src) bytes
\* that the key, the iv and src determine.  The bytes are kept symbolic.
CryptBlocks(key, iv, src) == [len |-> Len(src), of |-> <<src, key, iv>>]

\* base64.StdEncoding: four characters for every three bytes, the last
\* group filled up with '='.
EncodeToString(bytes) ==
    [chars |-> 4 * ((bytes.len + 2) \div 3), fill |-> (3 - (bytes.len % 3)) % 3,
     of |-> bytes.of]

\* The number of bytes base64.StdEncoding decodes the string to.
DecodedLen(s) == 3 * (s.chars \div 4) - s.fill

\* EncryptToBase64 without its length checks.
EncryptToBase64_NoChecks(plaintext, key, iv) ==
    [err |-> "",
     ciphertext |-> EncodeToString(CryptBlocks(key, iv, pkcs7Pad(plaintext, BlockSize)))]

\* EncryptToBase64: aes.NewCipher rejects a key that is not 16, 24 or 32
\* bytes; then the iv must be one block.
EncryptToBase64(plaintext, key, iv) ==
    IF Len(key) \notin {16, 24, 32}
    THEN [err |-> "crypto/aes: invalid key size", ciphertext |-> <<>>]
    ELSE IF Len(iv) # BlockSize
    THEN [err |-> "iv must be 16 bytes", ciphertext |-> <<>>]
    ELSE [err |-> "",
          ciphertext |-> EncodeToString(CryptBlocks(key, iv,
                                                    pkcs7Pad(plaintext, BlockSize)))]

\* json.Marshal of the payload map: bytes that the payload determines, kept
\* as one symbol.
Marshal(payload) == <<payload>>

\* encryptPayload: the marshalled payload (its body field here) under the
\* device's own EncodeKey and IV.
encryptPayload(payload, device) ==
    EncryptToBase64(Marshal(payload), device.EncodeKey, device.IV)

\* ---------------------------------------------------------- notice service
NoPush == [DeviceKey |-> "", ciphertext |-> <<>>, iv |-> Empty]
NoOutcome == [err |-> "", resp |-> "none", Code |-> 0, Message |-> ""]

\* ctx.Err() of a context that is done.
CtxErr == "context canceled"

\* The context of a Broadcast that ends with its HTTP caller.
BroadcastCtxDone_FollowsCaller(gone) == gone

\* dispatchNotice calls Broadcast with context.Background(): whatever has
\* happened to the HTTP caller, its Done channel never fires.
BroadcastCtxDone(gone) == FALSE

\* A goroutine before it has run: deviceResults holds only the device key.
\* pushes/push/out and appends/appendErr/logID record what it did to the
\* upstream and the store.
NewUnit(device) ==
    [pc |-> "start", DeviceKey |-> device.DeviceKey, Status |-> "", Message |-> "",
     encErr |-> "", pushes |-> 0, push |-> NoPush, out |-> NoOutcome,
     appends |-> 0, appendErr |-> "", logID |-> 0]

\* Lines 83-87 taking any envelope for a success.
PushResult_AnyCode(o) ==
    IF o.err # ""
    THEN [Status |-> "FAILED", Message |-> o.err]
    ELSE [Status |-> IF o.resp # "nil" THEN "SUCCESS" ELSE "FAILED",
          Message |-> IF o.resp # "nil" THEN o.Message ELSE ""]

\* Lines 78-92: what a push outcome makes of deviceResults.
PushResult(o) ==
    IF o.err # ""
    THEN [Status |-> "FAILED", Message |-> o.err]
    ELSE [Status |-> IF o.resp # "nil" /\ o.Code = CodeOK THEN "SUCCESS" ELSE "FAILED",
          Message |-> IF o.resp # "nil" THEN o.Message ELSE ""]

\* Broadcast's return.
Return(summary, res, err) ==
    /\ bpc' = "returned"
    /\ ret' = [err |-> err, summary |-> summary, results |-> res]

\* Lines 56-101: results starts as the lookup failures, one goroutine per target.
FanOut(tgts, failures) ==
    /\ bpc' = "fanout"
    /\ targets' = tgts
    /\ lookupFailures' = failures
    /\ results' = failures
    /\ successNum' = 0
    /\ mu' = 0
    /\ wg' = Len(tgts)
    /\ unit' = [i \in 1..Len(tgts) |-> NewUnit(tgts[i])]
    /\ ret' = NoReturn

\* Line 39 returning no results with the error.
Resolved_DropsFailures(tgts, failures) ==
    IF Len(tgts) = 0
    THEN /\ Return(NoSummary, <<>>, "no target devices resolved")
         /\ targets' = tgts
         /\ lookupFailures' = failures
         /\ results' = <<>>
         /\ successNum' = 0
         /\ mu' = 0
         /\ wg' = 0
         /\ unit' = <<>>
    ELSE FanOut(tgts, failures)

\* Lines 37-40 once pickTargets has returned (tgts, failures).
Resolved(tgts, failures) ==
    IF Len(tgts) = 0
    THEN /\ Return(NoSummary, failures, "no target devices resolved")
         /\ targets' = tgts
         /\ lookupFailures' = failures
         /\ results' = <<>>
         /\ successNum' = 0
         /\ mu' = 0
         /\ wg' = 0
         /\ unit' = <<>>
    ELSE FanOut(tgts, failures)

\* Broadcast is called: validation, then pickTargets.  Without deviceKeys
\* the targets are one ListActiveDevices read (which may fail: io); with
\* deviceKeys each key is its own store read (PickTarget).
BroadcastCall ==
    /\ bpc \in {"idle", "returned"}
    /\ nCalls < MaxBroadcasts
    /\ \E r \in NoticeRequests, io \in {"ok", "err"} :
          /\ req' = r
          /\ nCalls' = nCalls + 1
          /\ logBase' = Len(noticeLogs)
          /\ callerGone' = FALSE
          /\ IF TrimSpace(r.Body) = ""
             THEN /\ Return(NoSummary, <<>>, "body is required")
                  /\ pickIdx' = 0
                  /\ targets' = <<>>
                  /\ lookupFailures' = <<>>
                  /\ results' = <<>>
                  /\ successNum' = 0
                  /\ mu' = 0
                  /\ wg' = 0
                  /\ unit' = <<>>
             ELSE IF Len(r.DeviceKeys) = 0
             THEN /\ pickIdx' = 0
                  /\ IF io = "err"
                     THEN Resolved(<<>>, <<[DeviceKey |-> "", Status |-> "FAILED",
                                            Message |-> "list devices: io"]>>)
                     ELSE Resolved(ListActiveDevices(devices), <<>>)
             ELSE /\ bpc' = "pick"
                  /\ pickIdx' = 1
                  /\ targets' = <<>>
                  /\ lookupFailures' = <<>>
                  /\ results' = <<>>
                  /\ successNum' = 0
                  /\ mu' = 0
                  /\ wg' = 0
                  /\ unit' = <<>>
                  /\ ret' = NoReturn
    /\ UNCHANGED <<storeVars, logVars, appender, handler, pureVars>>

\* pickTargets giving up at the first key that does not resolve.
PickTarget_StopsAtFailure ==
    /\ bpc = "pick"
    /\ LET key == req.DeviceKeys[pickIdx]
           got == GetDeviceByKey(devices, key)
           tgts == IF got.found THEN Append(targets, got.device) ELSE targets
           failures == IF got.found THEN lookupFailures
                       ELSE Append(lookupFailures,
                                [DeviceKey |-> key, Status |-> "FAILED",
                                 Message |-> "not found"])
       IN IF pickIdx < Len(req.DeviceKeys) /\ got.found
          THEN /\ pickIdx' = pickIdx + 1
               /\ targets' = tgts
               /\ lookupFailures' = failures
               /\ UNCHANGED <<bpc, results, successNum, mu, wg, unit, ret>>
          ELSE /\ pickIdx' = pickIdx + 1
               /\ Resolved(tgts, failures)
    /\ UNCHANGED <<storeVars, logVars, nCalls, req, logBase, callerGone, appender, handler, pureVars>>

\* pickTargets lines 133-144: one pass of the loop over deviceKeys; after the
\* last key pickTargets returns and Broadcast goes on.
PickTarget ==
    /\ bpc = "pick"
    /\ LET key == req.DeviceKeys[pickIdx]
           got == GetDeviceByKey(devices, key)
           tgts == IF got.found THEN Append(targets, got.device) ELSE targets
           failures == IF got.found THEN lookupFailures
                       ELSE Append(lookupFailures,
                                [DeviceKey |-> key, Status |-> "FAILED",
                                 Message |-> "not found"])
       IN IF pickIdx < Len(req.DeviceKeys)
          THEN /\ pickIdx' = pickIdx + 1
               /\ targets' = tgts
               /\ lookupFailures' = failures
               /\ UNCHANGED <<bpc, results, successNum, mu, wg, unit, ret>>
          ELSE /\ pickIdx' = pickIdx + 1
               /\ Resolved(tgts, failures)
    /\ UNCHANGED <<storeVars, logVars, nCalls, req, logBase, callerGone, appender, handler, pureVars>>

\* http.Client.Do on a request whose context is done.
CanceledPush == [err |-> CtxErr, resp |-> "nil", Code |-> 0, Message |-> ""]

\* Goroutine i, lines 70-90: encrypt, and push if that worked.  The push is
\* made with the call's ctx (NewRequestWithContext).
UnitPush(i) ==
    /\ bpc = "fanout"
    /\ i \in DOMAIN unit
    /\ unit[i].pc = "start"
    /\ LET device == targets[i]
           enc == encryptPayload(req.Body, device)
       IN IF enc.err # ""
          THEN unit' = [unit EXCEPT ![i] =
                   [@ EXCEPT !.pc = "log", !.Status = "FAILED", !.Message = enc.err,
                             !.encErr = enc.err]]
          ELSE \E o \in (IF BroadcastCtxDone(callerGone) THEN {CanceledPush}
                                                               ELSE PushOutcomes) :
                   unit' = [unit EXCEPT ![i] =
                       [@ EXCEPT !.pc = "log",
                                 !.Status = PushResult(o).Status,
                                 !.Message = PushResult(o).Message,
                                 !.pushes = @ + 1,
                                 !.push = [DeviceKey |-> device.DeviceKey,
                                           ciphertext |-> enc.ciphertext,
                                           iv |-> device.IV],
                                 !.out = o]]
    /\ UNCHANGED <<storeVars, logVars, bpc, nCalls, req, pickIdx, targets,
                   lookupFailures, results, successNum, mu, wg, logBase, ret, callerGone, appender, handler, pureVars>>

\* appendLog logging every attempt as FAILED.
LogEntry_StatusFailed(u, r, id) ==
    [ID |-> id, DeviceKey |-> u.DeviceKey, Body |-> r.Body, Result |-> u.Message,
     Status |-> "FAILED", CreatedAt |-> clock]

\* appendLog's entry for goroutine i.
LogEntry(u, r, id) ==
    [ID |-> id, DeviceKey |-> u.DeviceKey, Body |-> r.Body, Result |-> u.Message,
     Status |-> u.Status, CreatedAt |-> clock]

\* appendLog turning a failed append into the unit's failure.
UnitAppendLog_FailureFailsUnit(i) ==
    /\ bpc = "fanout"
    /\ i \in DOMAIN unit
    /\ unit[i].pc = "log"
    /\ \E ok \in BOOLEAN :
          IF ok
          THEN LET id == NextSequence(logSeq)
               IN /\ logSeq' = id
                  /\ noticeLogs' = PutLog(noticeLogs, id, LogEntry(unit[i], req, id))
                  /\ unit' = [unit EXCEPT ![i] =
                         [@ EXCEPT !.pc = "lock", !.appends = @ + 1, !.logID = id]]
          ELSE /\ UNCHANGED logVars
               /\ unit' = [unit EXCEPT ![i] =
                      [@ EXCEPT !.pc = "lock", !.appends = @ + 1, !.appendErr = "io",
                                !.Status = "FAILED", !.Message = "append notice log failed"]]
    /\ UNCHANGED <<storeVars, bpc, nCalls, req, pickIdx, targets, lookupFailures,
                   results, successNum, mu, wg, logBase, ret, callerGone, appender, handler, pureVars>>

\* Goroutine i, lines 75/81/91: appendLog.  AppendNoticeLog returns ctx.Err()
\* when the call's ctx is done; otherwise it either commits (next sequence
\* number, Put) or fails.  A failure is only printed.
UnitAppendLog(i) ==
    /\ bpc = "fanout"
    /\ i \in DOMAIN unit
    /\ unit[i].pc = "log"
    /\ IF BroadcastCtxDone(callerGone)
       THEN /\ UNCHANGED logVars
            /\ unit' = [unit EXCEPT ![i] =
                   [@ EXCEPT !.pc = "lock", !.appends = @ + 1, !.appendErr = CtxErr]]
       ELSE \E ok \in BOOLEAN :
          IF ok
          THEN LET id == NextSequence(logSeq)
               IN /\ logSeq' = id
                  /\ noticeLogs' = PutLog(noticeLogs, id, LogEntry(unit[i], req, id))
                  /\ unit' = [unit EXCEPT ![i] =
                         [@ EXCEPT !.pc = "lock", !.appends = @ + 1, !.logID = id]]
          ELSE /\ UNCHANGED logVars
               /\ unit' = [unit EXCEPT ![i] =
                      [@ EXCEPT !.pc = "lock", !.appends = @ + 1, !.appendErr = "io"]]
    /\ UNCHANGED <<storeVars, bpc, nCalls, req, pickIdx, targets, lookupFailures,
                   results, successNum, mu, wg, logBase, ret, callerGone, appender, handler, pureVars>>

\* mu.Lock() that does not wait for the holder.
UnitLock_NoWait(i) ==
    /\ bpc = "fanout"
    /\ i \in DOMAIN unit
    /\ unit[i].pc = "lock"
    /\ mu' = i
    /\ unit' = [unit EXCEPT ![i] = [@ EXCEPT !.pc = "crit"]]
    /\ UNCHANGED <<storeVars, logVars, bpc, nCalls, req, pickIdx, targets,
                   lookupFailures, results, successNum, wg, logBase, ret, callerGone,
                   appender, handler, pureVars>>

\* Goroutine i, line 94: mu.Lock().
UnitLock(i) ==
    /\ bpc = "fanout"
    /\ i \in DOMAIN unit
    /\ unit[i].pc = "lock"
    /\ mu = 0
    /\ mu' = i
    /\ unit' = [unit EXCEPT ![i] = [@ EXCEPT !.pc = "crit"]]
    /\ UNCHANGED <<storeVars, logVars, bpc, nCalls, req, pickIdx, targets,
                   lookupFailures, results, successNum, wg, logBase, ret, callerGone, appender, handler, pureVars>>

\* The aggregation step counting every result as a success.
UnitAggregate_CountsAll(i) ==
    /\ bpc = "fanout"
    /\ i \in DOMAIN unit
    /\ unit[i].pc = "crit"
    /\ mu = i
    /\ successNum' = successNum + 1
    /\ results' = Append(results, [DeviceKey |-> unit[i].DeviceKey,
                                   Status |-> unit[i].Status,
                                   Message |-> unit[i].Message])
    /\ mu' = 0
    /\ wg' = wg - 1
    /\ unit' = [unit EXCEPT ![i] = [@ EXCEPT !.pc = "done"]]
    /\ UNCHANGED <<storeVars, logVars, bpc, nCalls, req, pickIdx, targets,
                   lookupFailures, logBase, ret, callerGone, appender, handler, pureVars>>

\* Goroutine i, lines 95-99 and the deferred wg.Done().
UnitAggregate(i) ==
    /\ bpc = "fanout"
    /\ i \in DOMAIN unit
    /\ unit[i].pc = "crit"
    /\ mu = i
    /\ successNum' = IF unit[i].Status = "SUCCESS" THEN successNum + 1 ELSE successNum
    /\ results' = Append(results, [DeviceKey |-> unit[i].DeviceKey,
                                   Status |-> unit[i].Status,
                                   Message |-> unit[i].Message])
    /\ mu' = 0
    /\ wg' = wg - 1
    /\ unit' = [unit EXCEPT ![i] = [@ EXCEPT !.pc = "done"]]
    /\ UNCHANGED <<storeVars, logVars, bpc, nCalls, req, pickIdx, targets,
                   lookupFailures, logBase, ret, callerGone, appender, handler, pureVars>>

\* Broadcast counting the devices that are active when it returns.
BroadcastReturn_LiveCount ==
    /\ bpc = "fanout"
    /\ wg = 0
    /\ Return([SendNum |-> Len(ListActiveDevices(devices)), SuccessNum |-> successNum],
              results, "")
    /\ UNCHANGED <<storeVars, logVars, nCalls, req, pickIdx, targets, lookupFailures,
                   results, successNum, mu, wg, unit, logBase, callerGone, appender,
                   handler, pureVars>>

\* Broadcast returning without wg.Wait().
BroadcastReturn_NoWait ==
    /\ bpc = "fanout"
    /\ Return([SendNum |-> Len(targets), SuccessNum |-> successNum], results, "")
    /\ UNCHANGED <<storeVars, logVars, nCalls, req, pickIdx, targets, lookupFailures,
                   results, successNum, mu, wg, unit, logBase, callerGone, appender, handler, pureVars>>

\* Lines 102-107: wg.Wait() returns, the summary is built.
BroadcastReturn ==
    /\ bpc = "fanout"
    /\ wg = 0
    /\ Return([SendNum |-> Len(targets), SuccessNum |-> successNum], results, "")
    /\ UNCHANGED <<storeVars, logVars, nCalls, req, pickIdx, targets, lookupFailures,
                   results, successNum, mu, wg, unit, logBase, callerGone, appender, handler, pureVars>>

\* Time passes.
Tick ==
    /\ clock < MaxClock
    /\ clock' = clock + 1
    /\ UNCHANGED <<storeVars, logVars, bpc, nCalls, req, pickIdx, targets, lookupFailures,
                   results, successNum, mu, wg, unit, logBase, ret, callerGone, appender,
                   handler, query, cipher, statusCall>>

\* appendLog lines 149-157 and AppendNoticeLog lines 162-171 for a unit of
\* Broadcast call c: the entry is built, the ctx check passed (the ctx is
\* context.Background()) and the entry has its CreatedAt from time.Now(); the
\* update transaction is still to come.
AppendBegin(p) ==
    /\ appender[p].pc = "idle"
    /\ \E c \in CallIds, k \in DeviceKeyValues :
          appender' = [appender EXCEPT ![p] =
              [pc |-> "tx", call |-> c, err |-> "",
               log |-> [ID |-> 0, DeviceKey |-> k, Body |-> "hello", Result |-> "success",
                        Status |-> "SUCCESS", CreatedAt |-> clock]]]
    /\ UNCHANGED <<storeVars, logVars, bpc, nCalls, req, pickIdx, targets,
                   lookupFailures, results, successNum, mu, wg, unit, logBase, ret,
                   callerGone, handler, pureVars>>

\* AppendNoticeLog lines 172-186: the bolt update transaction (one writer at
\* a time) takes the next sequence number as the id and puts the entry under
\* it, or fails and changes nothing.
AppendCommit(p) ==
    /\ appender[p].pc = "tx"
    /\ \E ok \in BOOLEAN :
          IF ok
          THEN LET id == NextSequence(logSeq)
               IN /\ logSeq' = id
                  /\ noticeLogs' = PutLog(noticeLogs, id, [appender[p].log EXCEPT !.ID = id])
                  /\ appender' = [appender EXCEPT ![p] =
                         [@ EXCEPT !.pc = "done", !.log = [@ EXCEPT !.ID = id]]]
          ELSE /\ UNCHANGED logVars
               /\ appender' = [appender EXCEPT ![p] = [@ EXCEPT !.pc = "done", !.err = "io"]]
    /\ UNCHANGED <<storeVars, bpc, nCalls, req, pickIdx, targets, lookupFailures,
                   results, successNum, mu, wg, unit, logBase, ret, callerGone, handler, pureVars>>

\* The HTTP caller of the Broadcast in progress gives up (its own timeout,
\* or the server's write timeout closes the connection).  The handler
\* goroutine and the units know nothing of it.
CallerTimeout ==
    /\ bpc \in {"pick", "fanout"}
    /\ ~callerGone
    /\ callerGone' = TRUE
    /\ UNCHANGED <<storeVars, logVars, bpc, nCalls, req, pickIdx, targets,
                   lookupFailures, results, successNum, mu, wg, unit, logBase, ret,
                   appender, handler, pureVars>>

\* A call has at most one target per requested key, or one per stored device.
UnitIds == 1..(IF MaxKeys > Len(TokenOrder) THEN MaxKeys ELSE Len(TokenOrder))

Next ==
    \/ Upsert
    \/ UpdateStatus
    \/ RegisterDevice
    \/ BroadcastCall
    \/ CallerTimeout
    \/ PickTarget
    \/ \E i \in UnitIds : UnitPush(i)
    \/ \E i \in UnitIds : UnitAppendLog(i)
    \/ \E i \in UnitIds : UnitLock(i)
    \/ \E i \in UnitIds : UnitAggregate(i)
    \/ BroadcastReturn

Spec == Init /\ [][Next]_vars

\* The device store under the calls of concurrent requests.
DeviceNext ==
    \/ \E h \in HandlerIds : DeviceCall(h)
    \/ \E h \in HandlerIds : DeviceRead(h)
    \/ \E h \in HandlerIds : DeviceRegister(h)
    \/ \E h \in HandlerIds : DeviceWrite(h)

DeviceSpec == Init /\ [][DeviceNext]_vars

\* The delivery log under the appends of units of concurrent Broadcasts.
LogNext ==
    \/ \E p \in AppenderIds : AppendBegin(p)
    \/ \E p \in AppenderIds : AppendCommit(p)
    \/ Tick

LogSpec == Init /\ [][LogNext]_vars

\* Go's scheduler runs every runnable goroutine, and the handler goroutine
\* that executes pickTargets; no step of a Broadcast waits on anything but
\* mu and wg.  The device-service calls are requests that may never come.
FairSpec ==
    /\ Spec
    /\ WF_vars(PickTarget)
    /\ \A i \in UnitIds : WF_vars(UnitPush(i))
    /\ \A i \in UnitIds : WF_vars(UnitAppendLog(i))
    /\ \A i \in UnitIds : WF_vars(UnitLock(i))
    /\ \A i \in UnitIds : WF_vars(UnitAggregate(i))
    /\ WF_vars(BroadcastReturn)

\* ======================================================== properties
Units == DOMAIN unit
Returned == bpc = "returned"
ReturnedOK == Returned /\ ret.err = ""
\* The bodies that are empty or only whitespace.
BlankBodies == {"", " "}
BodyGiven == req.Body \notin BlankBodies

\* The part of the returned results that follows the lookup failures.
PerDevice == SubSeq(ret.results, Len(lookupFailures) + 1, Len(ret.results))

UnitResult(i) ==
    [DeviceKey |-> unit[i].DeviceKey, Status |-> unit[i].Status,
     Message |-> unit[i].Message]

BadSecret(d) == Len(d.EncodeKey) \notin {16, 24, 32}
BadTargets == {i \in 1..Len(targets) : BadSecret(targets[i])}
Accepted(i) == unit[i].out.resp = "payload" /\ unit[i].out.err = "" /\ unit[i].out.Code = 200

EncryptErrors == {"crypto/aes: invalid key size", "iv must be 16 bytes"}

\* C1: a Broadcast over N resolved devices of which exactly one, D, has a
\* secret of a bad length returns N per-device results; D's is the only one
\* FAILED by encryption, every other device is pushed once, and successNum
\* is the number of the others whose push the upstream accepted with 200.
C1_OneBadKeyDoesNotAbortSiblings ==
    (ReturnedOK /\ Cardinality(BadTargets) = 1) =>
        /\ Len(PerDevice) = Len(targets)
        /\ Cardinality({j \in 1..Len(PerDevice) :
               PerDevice[j].Status = "FAILED" /\ PerDevice[j].Message \in EncryptErrors}) = 1
        /\ \A i \in Units :
              IF i \in BadTargets
              THEN /\ unit[i].encErr # ""
                   /\ unit[i].Status = "FAILED"
                   /\ unit[i].pushes = 0
                   /\ \E j \in 1..Len(PerDevice) : PerDevice[j] = UnitResult(i)
              ELSE /\ unit[i].encErr = ""
                   /\ unit[i].pushes = 1
                   /\ unit[i].push.DeviceKey = targets[i].DeviceKey
        /\ ret.summary.SuccessNum =
               Cardinality({i \in Units : i \notin BadTargets /\ Accepted(i)})

C1_Witness ==
    /\ ReturnedOK
    /\ Len(targets) = 2
    /\ Cardinality(BadTargets) = 1
    /\ ret.summary.SuccessNum = 1
    /\ Len(ret.results) = 2

\* The log entries this call added.
Added == SubSeq(noticeLogs, logBase + 1, Len(noticeLogs))

\* C2: a Broadcast that returns without error has called appendLog exactly
\* once per resolved device, whatever its outcome; every entry the store
\* accepted carries that device's key and result status and message; the
\* entries added are exactly the accepted appends, so when the store accepts
\* every append their number is summary.sendNum.
C2_OneLogEntryPerDevice ==
    ReturnedOK =>
        /\ \A i \in Units : unit[i].appends = 1
        /\ \A i \in Units :
              unit[i].logID # 0 =>
                  /\ unit[i].logID \in logBase + 1 .. Len(noticeLogs)
                  /\ noticeLogs[unit[i].logID].DeviceKey = targets[i].DeviceKey
                  /\ noticeLogs[unit[i].logID].Status = unit[i].Status
                  /\ noticeLogs[unit[i].logID].Result = unit[i].Message
                  /\ \E j \in 1..Len(PerDevice) :
                        /\ PerDevice[j] = UnitResult(i)
                        /\ PerDevice[j].Status = noticeLogs[unit[i].logID].Status
        /\ Len(Added) = Cardinality({i \in Units : unit[i].logID # 0})
        /\ \A i, k \in Units : (i # k /\ unit[i].logID # 0) => unit[i].logID # unit[k].logID
        /\ (\A i \in Units : unit[i].logID # 0) => Len(Added) = ret.summary.SendNum

C2_Witness ==
    /\ ReturnedOK
    /\ Len(targets) = 2
    /\ \A i \in Units : unit[i].logID # 0
    /\ Len(Added) = 2
    /\ \E i \in Units : unit[i].encErr # ""
    /\ \E i \in Units : unit[i].out.err # ""

\* C3: for a Broadcast that returns without error, sendNum is the number of
\* resolved targets (lookup failures not counted), successNum the number of
\* per-device results whose status is SUCCESS, and 0 <= successNum <= sendNum.
C3_SummaryCounts ==
    ReturnedOK =>
        /\ ret.summary.SendNum = Len(targets)
        /\ ret.summary.SendNum = Len(ret.results) - Len(lookupFailures)
        /\ ret.summary.SuccessNum =
               Cardinality({j \in 1..Len(PerDevice) : PerDevice[j].Status = "SUCCESS"})
        /\ ret.summary.SuccessNum =
               Cardinality({i \in Units : unit[i].Status = "SUCCESS"})
        /\ 0 <= ret.summary.SuccessNum
        /\ ret.summary.SuccessNum <= ret.summary.SendNum

C3_Witness ==
    /\ ReturnedOK
    /\ Len(lookupFailures) = 1
    /\ ret.summary.SendNum = 1
    /\ ret.summary.SuccessNum = 1

\* C4 (as claimed): the results hold one NoticeResult per failed lookup and
\* one per resolved device, and no device is a target (so gets a result and
\* a push) twice in one Broadcast, also when deviceKeys repeats a key.
C4_NoDeviceTwice ==
    ReturnedOK =>
        /\ Len(ret.results) = Len(lookupFailures) + Len(targets)
        /\ \A i, k \in Units :
              i # k => targets[i].DeviceToken # targets[k].DeviceToken

\* Keys[S]: the elements of sequence keys at the indices in S, in order.
RECURSIVE AtIndices(_, _, _)
AtIndices(keys, S, n) ==
    IF n = 0 THEN <<>>
    ELSE IF n \in S THEN Append(AtIndices(keys, S, n - 1), keys[n])
    ELSE AtIndices(keys, S, n - 1)

\* The first n deviceKeys split, in order, into those that failed to resolve
\* (the keys of the lookup failures) and those that resolved.
SplitsKeys(n) ==
    \E S \in SUBSET (1..n) :
        /\ AtIndices(req.DeviceKeys, S, n) =
               [j \in 1..Len(lookupFailures) |-> lookupFailures[j].DeviceKey]
        /\ Len(targets) = n - Cardinality(S)

\* C5: with deviceKeys given, every key is looked up whether or not earlier
\* ones failed; each failed lookup gives one FAILED result carrying its key;
\* the lookup failures come first in the returned results; sendNum counts
\* only the keys that resolved.
C5_LookupFailuresDoNotAbort ==
    (Len(req.DeviceKeys) > 0 /\ BodyGiven) =>
        /\ bpc = "pick" => SplitsKeys(pickIdx - 1)
        /\ bpc \in {"fanout", "returned"} => SplitsKeys(Len(req.DeviceKeys))
        /\ \A j \in 1..Len(lookupFailures) : lookupFailures[j].Status = "FAILED"
        /\ Returned =>
              /\ SubSeq(ret.results, 1, Len(lookupFailures)) = lookupFailures
              /\ ret.err = "" =>
                    /\ ret.summary.SendNum = Len(req.DeviceKeys) - Len(lookupFailures)
                    /\ Len(ret.results) = Len(req.DeviceKeys)
                    /\ \A j \in 1..Len(PerDevice) :
                          \E i \in Units : PerDevice[j] = UnitResult(i)

C5_Witness ==
    /\ ReturnedOK
    /\ Len(req.DeviceKeys) = 2
    /\ Len(lookupFailures) = 1
    /\ lookupFailures[1].DeviceKey = req.DeviceKeys[1]
    /\ Len(ret.results) = 2
    /\ ret.results[1] = lookupFailures[1]
    /\ ret.summary.SendNum = 1

\* C6: when Broadcast returns the resolution error (the list failed, no
\* device is active, no given key resolved) nothing was encrypted, pushed
\* or logged, the summary is zero, and with deviceKeys given the results are
\* one FAILED lookup failure per requested key, in order.
C6_ResolutionErrorBeforeAnyWork ==
    (Returned /\ ret.err = "no target devices resolved") =>
        /\ Units = {}
        /\ targets = <<>>
        /\ Len(noticeLogs) = logBase
        /\ ret.summary = NoSummary
        /\ Len(req.DeviceKeys) > 0 =>
              /\ Len(ret.results) = Len(req.DeviceKeys)
              /\ \A j \in 1..Len(ret.results) :
                    /\ ret.results[j].Status = "FAILED"
                    /\ ret.results[j].DeviceKey = req.DeviceKeys[j]

C6_Witness ==
    /\ Returned
    /\ ret.err = "no target devices resolved"
    /\ Len(req.DeviceKeys) = 2
    /\ Len(ret.results) = 2
    /\ DOMAIN devices # {}

\* C7: a Broadcast whose body is empty or only whitespace returns the
\* validation error at once, with no results; it resolves no target, starts
\* no unit, and the step leaves the delivery log and the device store as
\* they were.
C7_EmptyBodyFailsFast ==
    [][(nCalls' # nCalls /\ req'.Body \in BlankBodies) =>
          /\ bpc' = "returned"
          /\ ret' = [err |-> "body is required", summary |-> NoSummary, results |-> <<>>]
          /\ targets' = <<>>
          /\ lookupFailures' = <<>>
          /\ unit' = <<>>
          /\ devices' = devices
          /\ noticeLogs' = noticeLogs
          /\ logSeq' = logSeq]_vars

C7_Witness ==
    /\ Returned
    /\ req.Body = " "
    /\ ret.err = "body is required"
    /\ ret.results = <<>>
    /\ DOMAIN devices # {}
    /\ Len(noticeLogs) = logBase

\* C8: for a unit whose encryption succeeded, the result status is SUCCESS
\* exactly when the push returned without a transport error and the
\* envelope's code is 200, FAILED otherwise, and the message is the transport
\* error text or the upstream's message unchanged.
C8_StatusFollowsUpstreamCode ==
    \A i \in Units :
        (unit[i].pc # "start" /\ unit[i].encErr = "") =>
            /\ unit[i].pushes = 1
            /\ unit[i].Status \in {"SUCCESS", "FAILED"}
            /\ unit[i].Status = "SUCCESS" <=>
                   (unit[i].out.err = "" /\ unit[i].out.resp = "payload"
                    /\ unit[i].out.Code = 200)
            /\ unit[i].Message =
                   IF unit[i].out.err # "" THEN unit[i].out.err ELSE unit[i].out.Message
            /\ (Returned /\ unit[i].pc = "done") =>
                   \E j \in 1..Len(PerDevice) : PerDevice[j] = UnitResult(i)

C8_Witness ==
    /\ ReturnedOK
    /\ \E i \in Units : unit[i].Status = "FAILED" /\ unit[i].out.Code = 400
                        /\ unit[i].Message = "device key not found"
    /\ \E i \in Units : unit[i].Status = "SUCCESS" /\ unit[i].out.Code = 200

\* C9: a Broadcast without deviceKeys takes as targets only devices whose
\* stored status is ACTIVE (as the code compares it: trimmed, upper-cased)
\* when they are resolved, each as it is stored then; a device stored as
\* STOPPED (or STOP) is no target, so it gets no unit: no push, no result and
\* no log entry.
C9_OnlyActiveDevicesBroadcast ==
    [][(nCalls' # nCalls /\ Len(req'.DeviceKeys) = 0 /\ req'.Body \notin BlankBodies) =>
          /\ \A i \in 1..Len(targets') :
                /\ targets'[i].DeviceToken \in DOMAIN devices
                /\ targets'[i] = devices[targets'[i].DeviceToken]
                /\ ToUpper(TrimSpace(targets'[i].Status)) = "ACTIVE"
          /\ \A t \in DOMAIN devices :
                devices[t].Status \in {"STOPPED", "STOP"} =>
                    /\ \A i \in 1..Len(targets') : targets'[i].DeviceToken # t
                    /\ \A i \in DOMAIN unit' : unit'[i].DeviceKey # devices[t].DeviceKey
          /\ DOMAIN unit' = 1..Len(targets')]_vars

C9_Witness ==
    /\ Returned
    /\ BodyGiven
    /\ Len(req.DeviceKeys) = 0
    /\ \E t \in DOMAIN devices : devices[t].Status = "STOPPED"
    /\ nOps = 1
    /\ Units = {}
    /\ Len(noticeLogs) = logBase

\* C10: Broadcast returns only when every unit is done: at return every
\* resolved device has a SUCCESS or FAILED result in the list, its log
\* append has been attempted, nobody holds the lock; and a Broadcast that
\* has been called returns.
C10_ReturnsAfterAllUnits ==
    /\ [](ReturnedOK =>
            /\ wg = 0
            /\ mu = 0
            /\ Len(PerDevice) = Len(targets)
            /\ \A i \in Units :
                  /\ unit[i].pc = "done"
                  /\ unit[i].Status \in {"SUCCESS", "FAILED"}
                  /\ unit[i].appends = 1
                  /\ Cardinality({j \in 1..Len(PerDevice) : PerDevice[j] = UnitResult(i)})
                         = Cardinality({k \in Units : UnitResult(k) = UnitResult(i)}))
    /\ (bpc \in {"pick", "fanout"}) ~> Returned

C10_Witness ==
    /\ ReturnedOK
    /\ Len(targets) = 2
    /\ \A i \in Units : unit[i].pc = "done"
    /\ ret.results[1].Status # ret.results[2].Status

\* A unit that has not yet finished its push and its log append.
InFlight(i) == bpc = "fanout" /\ i \in Units /\ unit[i].pc \in {"start", "log"}

C12_AppendFailureIsSwallowed ==
    \A i \in Units :
        unit[i].appendErr # "" =>
            /\ unit[i].appends = 1
            /\ unit[i].logID = 0
            /\ unit[i].Status = (IF unit[i].encErr = "" /\ Accepted(i) THEN "SUCCESS"
                                 ELSE "FAILED")
            /\ unit[i].Message =
                   (IF unit[i].encErr # "" THEN unit[i].encErr
                    ELSE IF unit[i].out.err # "" THEN unit[i].out.err
                    ELSE unit[i].out.Message)
            /\ Len(Added) = Cardinality({k \in Units : unit[k].logID # 0})
            /\ \A k \in Units :
                  (k # i /\ unit[k].appends = 1 /\ unit[k].appendErr = "") =>
                      /\ unit[k].logID \in logBase + 1 .. Len(noticeLogs)
                      /\ noticeLogs[unit[k].logID].DeviceKey = unit[k].DeviceKey
                      /\ noticeLogs[unit[k].logID].Status = unit[k].Status
            /\ Returned =>
                  /\ ret.err = ""
                  /\ \E j \in 1..Len(PerDevice) : PerDevice[j] = UnitResult(i)
                  /\ ret.summary.SendNum = Len(targets)
                  /\ ret.summary.SuccessNum =
                         Cardinality({k \in Units : unit[k].encErr = "" /\ Accepted(k)})

C12_Witness ==
    /\ ReturnedOK
    /\ Len(targets) = 2
    /\ unit[1].appendErr = "io"
    /\ unit[1].Status = "SUCCESS"
    /\ unit[2].logID # 0
    /\ ret.summary.SuccessNum = 2
    /\ Len(Added) = 1

\* The appends the store has accepted.
Committed == {p \in AppenderIds : appender[p].pc = "done" /\ appender[p].err = ""}

\* C13: every stored entry gets an id greater than every id assigned before
\* it; entries appended concurrently by units of one Broadcast or of several
\* Broadcasts get pairwise distinct ids; no append replaces or changes an
\* entry already stored.
C13_LogIdsStrictlyIncrease ==
    /\ [](/\ \A p, q \in Committed : p # q => appender[p].log.ID # appender[q].log.ID
          /\ \A p \in Committed :
                /\ appender[p].log.ID \in DOMAIN noticeLogs
                /\ noticeLogs[appender[p].log.ID] = appender[p].log
          /\ Cardinality(DOMAIN noticeLogs) = Cardinality(Committed)
          /\ \A id \in DOMAIN noticeLogs : noticeLogs[id].ID = id /\ id <= logSeq)
    /\ [][/\ \A id \in DOMAIN noticeLogs' \ DOMAIN noticeLogs :
                \A old \in DOMAIN noticeLogs : id > old
          /\ \A old \in DOMAIN noticeLogs :
                old \in DOMAIN noticeLogs' /\ noticeLogs'[old] = noticeLogs[old]
          /\ logSeq' >= logSeq]_vars

C13_Witness ==
    /\ Cardinality(Committed) = 3
    /\ \E p, q \in Committed :
          /\ appender[p].call # appender[q].call
          /\ p > q
          /\ appender[p].log.ID < appender[q].log.ID
    /\ \E p, q \in Committed :
          /\ p # q
          /\ appender[p].call = appender[q].call
          /\ appender[p].log.DeviceKey = appender[q].log.DeviceKey

\* Handler h makes its store write in this step.
Wrote(h) == handler'[h].writes = handler[h].writes + 1
\* No other call has changed what GetDevice gave h's call when it read.
Unraced(h) == handler[h].got = GetDevice(devices, handler[h].r.DeviceToken)
\* The token of h's request.
Tok(h) == handler[h].r.DeviceToken

\* C14 (as claimed): an Upsert that omits secret and iv and is not raced by
\* another call stores a record under its token; if that token already had
\* a secret and an iv they are stored unchanged (so a repeated Upsert never
\* regenerates them); if the token was new the record holds a generated
\* secret of KeyBytes characters and an iv of 16.
C14_UpsertKeepsOrGeneratesCredentials ==
    [][\A h \in HandlerIds :
          (/\ Wrote(h)
           /\ handler[h].op = "Upsert"
           /\ handler[h].r.EncodeKey = Empty
           /\ handler[h].r.IV = Empty
           /\ Unraced(h)) =>
              /\ Tok(h) \in DOMAIN devices'
              /\ IF Tok(h) \in DOMAIN devices
                 THEN (devices[Tok(h)].EncodeKey # Empty /\ devices[Tok(h)].IV # Empty) =>
                         /\ devices'[Tok(h)].EncodeKey = devices[Tok(h)].EncodeKey
                         /\ devices'[Tok(h)].IV = devices[Tok(h)].IV
                 ELSE /\ Len(devices'[Tok(h)].EncodeKey) = KeyBytes
                      /\ Len(devices'[Tok(h)].IV) = 16]_vars

\* The secret and the iv an Upsert ends up with: the request's when given,
\* else the ones of the record it read, else generated ones.
FinalSecret(h) ==
    IF handler[h].r.EncodeKey # Empty THEN handler[h].r.EncodeKey
    ELSE IF handler[h].got.found /\ handler[h].got.device.EncodeKey # Empty
    THEN handler[h].got.device.EncodeKey
    ELSE Rep("g", KeyBytes)
FinalIV(h) ==
    IF handler[h].r.IV # Empty THEN handler[h].r.IV
    ELSE IF handler[h].got.found /\ handler[h].got.device.IV # Empty
    THEN handler[h].got.device.IV
    ELSE Rep("g", IVBytes)
BadFinalCredentials(h) ==
    Len(FinalSecret(h)) \notin {16, 24, 32} \/ Len(FinalIV(h)) # IVBytes
LengthErrors == {"encodeKey must be 16, 24 or 32 characters", "iv must be 16 characters"}
\* The calls that have read the store.
HasRead(h) == handler[h].pc \in {"register", "write", "done"}

\* C15: an Upsert whose final secret is not 16, 24 or 32 long, or whose
\* final iv is not 16 long, fails with the length error having made no
\* Register call and no store write; the store changes only in the write of
\* a call that did not fail, and what an Upsert writes has a valid secret
\* and iv.
C15_BadLengthsPersistNothing ==
    /\ [](\A h \in HandlerIds :
            (handler[h].op = "Upsert" /\ HasRead(h)) =>
                /\ BadFinalCredentials(h) =>
                      /\ handler[h].pc = "done"
                      /\ handler[h].err \in LengthErrors
                      /\ handler[h].writes = 0
                      /\ handler[h].registers = 0
                /\ handler[h].err \in LengthErrors => BadFinalCredentials(h)
                /\ handler[h].writes > 0 =>
                      /\ Len(handler[h].device.EncodeKey) \in {16, 24, 32}
                      /\ Len(handler[h].device.IV) = IVBytes)
    /\ [][devices' # devices =>
             \E h \in HandlerIds :
                 /\ Wrote(h)
                 /\ handler'[h].err = ""
                 /\ devices' = (handler[h].device.DeviceToken :> handler[h].device) @@ devices
         ]_vars

C15_Witness ==
    /\ handler[1].op = "Upsert"
    /\ handler[1].pc = "done"
    /\ handler[1].writes = 1
    /\ handler[2].op = "Upsert"
    /\ handler[2].pc = "done"
    /\ handler[2].r.EncodeKey = Rep("k", 16)
    /\ handler[2].r.IV = Rep("v", 8)
    /\ handler[2].r.DeviceKey = ""
    /\ handler[2].got.found
    /\ handler[2].err = "iv must be 16 characters"
    /\ handler[2].registers = 0
    /\ devices = (handler[1].device.DeviceToken :> handler[1].device)

\* The delivery key of an Upsert's device after the merge: the request's
\* when given, else the one of the record it read.
MergedKey(h) ==
    IF handler[h].r.DeviceKey # "" THEN handler[h].r.DeviceKey
    ELSE IF handler[h].got.found THEN handler[h].got.device.DeviceKey
    ELSE ""
RegisterErrors == {"register http status 502", "register failed: empty device key"}

SpecStatuses == {"ACTIVE", "STOPPED"}
\* The status a request asks for, normalised.
Requested(h) == ToUpper(TrimSpace(handler[h].r.Status))

\* C17 (as claimed): what an Upsert or an UpdateStatus writes has the
\* upper-cased requested status when that is ACTIVE or STOPPED and ACTIVE
\* otherwise, so every stored device's status is ACTIVE or STOPPED.
C17_StatusIsNormalised ==
    /\ [][\A h \in HandlerIds :
             (Wrote(h) /\ handler[h].op \in {"Upsert", "UpdateStatus"}) =>
                 devices'[handler[h].device.DeviceToken].Status =
                     (IF Requested(h) \in SpecStatuses THEN Requested(h) ELSE "ACTIVE")]_vars
    /\ [](\A t \in DOMAIN devices : devices[t].Status \in SpecStatuses)

\* C18 (as claimed): no two stored records with different tokens hold the
\* same non-empty delivery key, so GetDeviceByKey's first match is the only
\* match.
C18_DeliveryKeyIsUnique ==
    \A t, u \in DOMAIN devices :
        (t # u /\ devices[t].DeviceKey # "") => devices[t].DeviceKey # devices[u].DeviceKey

\* C19 (as claimed): a RegisterDevice whose upstream response has an empty
\* key returns without error and without a store write; one whose response
\* has a key, and which no other call races, leaves a record under the token
\* it was called with that holds the key, and a record that token already
\* had keeps its secret, iv and status.
C19_RegisterCachesKeyUnderToken ==
    /\ [](\A h \in HandlerIds :
            (handler[h].op = "RegisterDevice" /\ handler[h].pc = "done"
             /\ handler[h].key = "") => handler[h].writes = 0)
    /\ [][\A h \in HandlerIds :
             (Wrote(h) /\ handler[h].op = "RegisterDevice" /\ Unraced(h)) =>
                 /\ Tok(h) \in DOMAIN devices'
                 /\ devices'[Tok(h)].DeviceKey = handler[h].key
                 /\ Tok(h) \in DOMAIN devices =>
                       /\ devices'[Tok(h)].EncodeKey = devices[Tok(h)].EncodeKey
                       /\ devices'[Tok(h)].IV = devices[Tok(h)].IV
                       /\ devices'[Tok(h)].Status = devices[Tok(h)].Status]_vars

\* C20 (as claimed): an UpdateStatus for a token that is not stored fails
\* with not found and writes nothing; for a stored token, with no other call
\* racing it, it changes only that record's status (empty becoming ACTIVE)
\* and leaves every other record as it was.
C20_UpdateStatusTouchesOnlyStatus ==
    /\ [](\A h \in HandlerIds :
            (handler[h].op = "UpdateStatus" /\ HasRead(h)
             /\ (~handler[h].got.found \/ handler[h].got.device.DeviceToken # Tok(h))) =>
                /\ handler[h].pc = "done"
                /\ handler[h].err = "not found"
                /\ handler[h].writes = 0)
    /\ [][\A h \in HandlerIds :
             (Wrote(h) /\ handler[h].op = "UpdateStatus" /\ Unraced(h)) =>
                 /\ Tok(h) \in DOMAIN devices
                 /\ DOMAIN devices' = DOMAIN devices
                 /\ devices'[Tok(h)] =
                        [devices[Tok(h)] EXCEPT !.Status =
                            IF Requested(h) = "" THEN "ACTIVE" ELSE Requested(h)]
                 /\ \A t \in DOMAIN devices : t # Tok(h) => devices'[t] = devices[t]]_vars

\* ----------------------------------------------------------------- C21
\* C21: across Upsert, UpdateStatus, RegisterDevice and Broadcast steps a
\* stored log entry is never changed or removed and a stored device token
\* stays stored: the log only grows, nothing is deleted.
C21_NothingIsDeleted ==
    [][ /\ \A id \in DOMAIN noticeLogs :
              id \in DOMAIN noticeLogs' /\ noticeLogs'[id] = noticeLogs[id]
        /\ DOMAIN devices \subseteq DOMAIN devices' ]_vars

\* A Broadcast has appended two entries to a store that device calls wrote
\* to before and after the first append.
C21_Witness ==
    /\ Len(noticeLogs) = 2
    /\ nOps = 2
    /\ devices # <<>>
    /\ bpc = "returned"

\* ----------------------------------------------------------------- C22
\* Entries the log holds when it is queried.
MaxTotal == 25

\* Go's int on the 64-bit builds, in two's complement: four 16-bit limbs,
\* lowest first.
Limb == 65536

\* Propagates carries and borrows and drops what leaves the 64 bits.
Carry(a) ==
    LET s2 == a[2] + (a[1] \div Limb)
        s3 == a[3] + (s2 \div Limb)
        s4 == a[4] + (s3 \div Limb)
    IN <<a[1] % Limb, s2 % Limb, s3 % Limb, s4 % Limb>>

\* The int of value n.
Int64(n) == Carry(<<n, 0, 0, 0>>)
MaxInt64 == <<Limb - 1, Limb - 1, Limb - 1, (Limb \div 2) - 1>>

Add64(a, b) == Carry(<<a[1] + b[1], a[2] + b[2], a[3] + b[3], a[4] + b[4]>>)
Sub64(a, b) == Carry(<<a[1] - b[1], a[2] - b[2], a[3] - b[3], a[4] - b[4]>>)
\* a * k for a factor k in 0..100 (the clamped page size), wrapping.
Mul64(a, k) == Carry(<<a[1] * k, a[2] * k, a[3] * k, a[4] * k>>)

IsNegative(a) == a[4] >= Limb \div 2
\* a < b on signed ints.
Less64(a, b) ==
    IF IsNegative(a) # IsNegative(b)
    THEN IsNegative(a)
    ELSE \E i \in 1..4 : a[i] < b[i] /\ \A j \in (i + 1)..4 : a[j] = b[j]

\* An int64 whose value is a small number, and that number.
Fits(a) ==
    IF IsNegative(a)
    THEN a[4] = Limb - 1 /\ a[3] = Limb - 1 /\ a[2] >= Limb \div 2
    ELSE a[4] = 0 /\ a[3] = 0 /\ a[2] < Limb \div 2
Small(a) == IF IsNegative(a) THEN a[1] + (a[2] - Limb) * Limb ELSE a[1] + a[2] * Limb

\* What strconv.Atoi makes of the page and pageSize parameters: any int.
PageInputs == {Int64(n) : n \in -1..4} \cup {MaxInt64, <<1, 0, 0, Limb \div 4>>}
PageSizeInputs == {Int64(n) : n \in {-1, 0, 1, 4, 10, 100, 101}} \cup {MaxInt64}
\* A sorted list of n entries as filteredLogs returns it, the entries numbered
\* from the last one to the first.
NewestFirst(n) == [i \in 1..n |-> n + 1 - i]

\* Query once filteredLogs has returned logs.  The slice expression
\* logs[start:end] panics unless 0 <= start <= end <= cap(logs).
Query(logs, filter) ==
    LET total == Len(logs)
        defaulted == IF ~Less64(Int64(0), filter.PageSize) THEN Int64(10)
                     ELSE filter.PageSize
        pageSize == IF Less64(Int64(100), defaulted) THEN 100 ELSE Small(defaulted)
        page == IF ~Less64(Int64(0), filter.Page) THEN Int64(1) ELSE filter.Page
        product == Mul64(Sub64(page, Int64(1)), pageSize)
        start == IF Less64(Int64(total), product) THEN Int64(total) ELSE product
        sum == Add64(start, Int64(pageSize))
        end == IF Less64(Int64(total), sum) THEN Int64(total) ELSE sum
        inBounds == /\ ~IsNegative(start)
                    /\ ~Less64(end, start)
                    /\ ~Less64(Int64(total), end)
    IN IF ~inBounds
       THEN [panic |-> "slice bounds out of range", Data |-> <<>>, Total |-> 0,
             Pages |-> 0, PageNum |-> Int64(0), PageSize |-> 0]
       ELSE [panic |-> "", Data |-> SubSeq(logs, Small(start) + 1, Small(end)),
             Total |-> total,
             Pages |-> (total + pageSize - 1) \div pageSize,
             PageNum |-> page, PageSize |-> pageSize]

\* A log list request arrives: any page, any pageSize, a log of any size.
QueryInit ==
    /\ Booted
    /\ cipher = NoCipher
    /\ statusCall = NoStatusCall
    /\ clock = 0
    /\ \E page \in PageInputs, pageSize \in PageSizeInputs, n \in 0..MaxTotal :
          query = [pc |-> "called", Page |-> page, PageSize |-> pageSize,
                   logs |-> NewestFirst(n)]

\* handleLogList calls Query.
QueryCall ==
    /\ query.pc = "called"
    /\ query' = [pc |-> "done", Page |-> query.Page, PageSize |-> query.PageSize,
                 logs |-> query.logs,
                 res |-> Query(query.logs, [Page |-> query.Page,
                                            PageSize |-> query.PageSize])]
    /\ UNCHANGED <<storeVars, logVars, bpc, nCalls, req, pickIdx, targets, lookupFailures,
                   results, successNum, mu, wg, unit, logBase, ret, callerGone, appender,
                   handler, cipher, statusCall, clock>>

QueryNext == QueryCall
QuerySpec == QueryInit /\ [][QueryNext]_vars

\* The page and the page size the claim asks for: page at least 1, page size
\* in 1..100 (a page size that is not positive reads as the default 10).
AskedPageSize ==
    IF ~Less64(Int64(0), query.PageSize) THEN 10
    ELSE IF Less64(Int64(100), query.PageSize) THEN 100 ELSE Small(query.PageSize)
AskedPage == IF ~Less64(Int64(0), query.Page) THEN Int64(1) ELSE query.Page
\* A page so far out that no log of MaxTotal entries reaches it.
FarPage == ~Fits(AskedPage) \/ Small(AskedPage) > MaxTotal + 1
Ceil(n, d) == CHOOSE q \in 0..n : q * d >= n /\ (q = 0 \/ (q - 1) * d < n)
Min(a, b) == IF a < b THEN a ELSE b

\* C22: for every page, pageSize and log Query does not panic, answers with
\* page >= 1 and pageSize in 1..100, pages = ceil(total/pageSize), and the
\* entries at positions (page-1)*pageSize+1 .. min(page*pageSize, total) of
\* the newest-first list: none when the page is out of range.
C22_QueryPaginates ==
    query.pc = "done" =>
        LET res == query.res
            total == Len(query.logs)
        IN /\ res.panic = ""
           /\ Less64(Int64(0), res.PageNum)
           /\ res.PageSize \in 1..100
           /\ res.PageSize = AskedPageSize
           /\ res.Total = total
           /\ res.Pages = Ceil(total, AskedPageSize)
           /\ res.Data =
                 IF FarPage THEN <<>>
                 ELSE SubSeq(query.logs, (Small(AskedPage) - 1) * AskedPageSize + 1,
                             Min(Small(AskedPage) * AskedPageSize, total))

\* ----------------------------------------------------------------- C23
\* Longest plaintext handed to EncryptToBase64.
MaxPlain == 33

PlaintextInputs == {Rep("p", n) : n \in 0..MaxPlain}
KeyInputs == {Rep("k", n) : n \in {0, 15, 16, 17, 24, 32, 33}}
IVInputs == {Rep("v", n) : n \in {0, 15, 16, 17}}

\* A caller holds a plaintext, a key and an iv of any lengths.
EncryptInit ==
    /\ Booted
    /\ query = NoQuery
    /\ statusCall = NoStatusCall
    /\ clock = 0
    /\ \E plaintext \in PlaintextInputs, key \in KeyInputs, iv \in IVInputs :
          cipher = [pc |-> "ready", plaintext |-> plaintext, key |-> key, iv |-> iv,
                    first |-> EncryptToBase64_NoChecks(Empty, Empty, Empty),
                    second |-> EncryptToBase64_NoChecks(Empty, Empty, Empty)]

\* The caller calls EncryptToBase64.
Encrypt ==
    /\ cipher.pc = "ready"
    /\ cipher' = [cipher EXCEPT !.pc = "once",
                     !.first = EncryptToBase64(cipher.plaintext, cipher.key, cipher.iv)]
    /\ UNCHANGED <<storeVars, logVars, bpc, nCalls, req, pickIdx, targets, lookupFailures,
                   results, successNum, mu, wg, unit, logBase, ret, callerGone, appender,
                   handler, query, statusCall, clock>>

\* It calls it again with the same arguments.
EncryptAgain ==
    /\ cipher.pc = "once"
    /\ cipher' = [cipher EXCEPT !.pc = "twice",
                     !.second = EncryptToBase64(cipher.plaintext, cipher.key, cipher.iv)]
    /\ UNCHANGED <<storeVars, logVars, bpc, nCalls, req, pickIdx, targets, lookupFailures,
                   results, successNum, mu, wg, unit, logBase, ret, callerGone, appender,
                   handler, query, statusCall, clock>>

EncryptNext == Encrypt \/ EncryptAgain
EncryptSpec == EncryptInit /\ [][EncryptNext]_vars

Recorded == {i \in Units : unit[i].pc = "done"}
FanningOut == bpc = "fanout"

\* The lock is held by exactly the unit that is in its aggregation step, and
\* what has been recorded is what the finished units had to record.
LockDiscipline ==
    FanningOut =>
        /\ mu \in Units \cup {0}
        /\ \A i \in Units : (mu = i) <=> (unit[i].pc = "crit")
        /\ Len(results) = Len(lookupFailures) + Cardinality(Recorded)
        /\ \A i \in Recorded : \E j \in 1..Len(results) : results[j] = UnitResult(i)
        /\ successNum = Cardinality({i \in Recorded : unit[i].Status = "SUCCESS"})

\* A unit that has its result can take the lock at once or the holder can
\* finish its aggregation step at once, wherever the other units are.
NeverBlockedByUpstream ==
    FanningOut =>
        \A i \in Units :
            unit[i].pc = "lock" =>
                IF mu = 0 THEN ENABLED UnitLock(i)
                ELSE mu \in Units /\ ENABLED UnitAggregate(mu)

\* A step of the fan-out that changes results or successNum is the
\* aggregation step of the lock holder, which appends its own result.
OnlyTheHolderWrites ==
    (FanningOut /\ bpc' = "fanout" /\ (results' # results \/ successNum' # successNum)) =>
        /\ mu \in Units
        /\ unit[mu].pc = "crit"
        /\ unit'[mu].pc = "done"
        /\ mu' = 0
        /\ results' = Append(results, UnitResult(mu))
        /\ successNum' = successNum + (IF unit[mu].Status = "SUCCESS" THEN 1 ELSE 0)

\* C24: during the fan-out results and successNum are touched only by the
\* unit that holds the lock; no unit holds the lock while it encrypts, pushes
\* or appends a log entry; no result and no success increment is lost; a
\* unit whose upstream call is slow or blocked never keeps another unit from
\* recording its result.
C24_LockOnlyForAggregation ==
    /\ [](LockDiscipline /\ NeverBlockedByUpstream)
    /\ [][OnlyTheHolderWrites]_vars

\* One unit is still before its upstream call while another has recorded a
\* successful result.
C24_Witness ==
    /\ FanningOut
    /\ \E i, j \in Units :
          /\ unit[i].pc = "start"
          /\ unit[j].pc = "done"
          /\ unit[j].Status = "SUCCESS"
    /\ successNum = 1
    /\ Len(results) = Len(lookupFailures) + 1

\* ----------------------------------------------------------------- C25
\* The units that have called the upstream.
Pushed == {i \in Units : unit[i].pushes > 0}

\* C25 (as claimed): every push of a Broadcast addressed to delivery key K
\* carries the payload encrypted with the secret and the iv of the device
\* resolved for K, each resolved device is pushed at most once, and a device
\* whose encryption failed is not pushed.
C25_OwnCredentialsAtMostOnce ==
    bpc \in {"fanout", "returned"} =>
        /\ \A i \in Pushed :
              /\ unit[i].push.DeviceKey = targets[i].DeviceKey
              /\ unit[i].push.iv = targets[i].IV
              /\ unit[i].push.ciphertext =
                    EncodeToString(CryptBlocks(targets[i].EncodeKey, targets[i].IV,
                                               pkcs7Pad(Marshal(req.Body), BlockSize)))
              /\ unit[i].pushes = 1
        /\ \A i, k \in Pushed :
              targets[i].DeviceToken = targets[k].DeviceToken => i = k
        /\ \A i \in Units : unit[i].encErr # "" => i \notin Pushed

\* ----------------------------------------------------------------- C26
\* The target list is what the store read returned: a Broadcast without
\* deviceKeys that starts its fan-out has the active devices of that moment.
ResolvesFromTheStore ==
    (bpc # "fanout" /\ bpc' = "fanout" /\ req'.DeviceKeys = <<>>) =>
        targets' = ListActiveDevices(devices)

\* Once resolved, no step changes the targets, whatever it does to the store,
\* and the summary counts them.
TargetsAreFixed ==
    FanningOut =>
        /\ targets' = targets
        /\ bpc' = "returned" => ret'.summary.SendNum = Len(targets)

\* A unit that pushes in this step pushes to its target as resolved.
PushesTheSnapshot ==
    \A i \in Units :
        (FanningOut /\ i \in DOMAIN unit' /\ unit'[i].pushes = unit[i].pushes + 1) =>
            /\ unit'[i].push.DeviceKey = targets[i].DeviceKey
            /\ unit'[i].push.iv = targets[i].IV
            /\ unit'[i].push.ciphertext =
                  encryptPayload(req.Body, targets[i]).ciphertext

\* C26: the targets of a Broadcast are the snapshot taken at resolution: an
\* UpdateStatus or Upsert that runs after it changes neither the devices the
\* Broadcast pushes to nor the secret, iv and delivery key used for them, and
\* sendNum is the size of the snapshot.
C26_TargetsAreASnapshot ==
    [][ResolvesFromTheStore /\ TargetsAreFixed /\ PushesTheSnapshot]_vars

\* A Broadcast without deviceKeys has pushed to a device and counted it
\* although the stored record is no longer active and no longer the target's.
C26_Witness ==
    /\ ReturnedOK
    /\ req.DeviceKeys = <<>>
    /\ ret.summary.SendNum = Len(targets)
    /\ \E i \in Pushed :
          /\ targets[i].DeviceToken \in DOMAIN devices
          /\ ~IsActiveStatus(devices[targets[i].DeviceToken].Status)
          /\ IsActiveStatus(targets[i].Status)
    /\ Len(ListActiveDevices(devices)) # Len(targets)

\* ----------------------------------------------------------------- C27
\* The store after call c has run alone, start to end, on store devs, the
\* upstream answering reg if the call registers.
RunAlone(devs, c, reg) ==
    CASE c.op = "Upsert" ->
            LET m == UpsertMerge(devs, c.r, Rep("g", KeyBytes), Rep("g", IVBytes))
                g == UpsertRegister(m.device, reg)
            IN IF m.err # "" THEN devs
               ELSE IF m.device.DeviceKey # "" THEN UpsertDevice(devs, m.device)
               ELSE IF g.err # "" THEN devs
               ELSE UpsertDevice(devs, g.device)
      [] c.op = "UpdateStatus" ->
            LET m == UpdateStatusMerge(devs, c.r.DeviceToken, c.r.Status)
            IN IF m.err # "" THEN devs ELSE UpsertDevice(devs, m.device)
      [] c.op = "RegisterDevice" ->
            IF reg.err # "" \/ reg.DeviceKey = "" THEN devs
            ELSE UpsertDevice(devs, RegisterMerge(devs, c.r.DeviceToken, reg.DeviceKey))
      [] OTHER -> devs

\* The stores that running call a and then call b on the empty store can
\* leave, whatever the upstream answers.
InOrder(a, b) ==
    {RunAlone(RunAlone(<<>>, a, ra), b, rb) : ra \in RegisterOutcomes, rb \in RegisterOutcomes}

AllDone == \A h \in HandlerIds : handler[h].pc = "done"
SameToken == \A h, g \in HandlerIds : Tok(h) = Tok(g)
\* An Upsert that succeeded with a secret and iv it generated.
Generated(h) ==
    /\ handler[h].op = "Upsert"
    /\ handler[h].err = ""
    /\ handler[h].writes = 1
    /\ handler[h].r.EncodeKey = Empty
    /\ handler[h].r.IV = Empty
    /\ ~handler[h].got.found

\* C27 (as claimed): when the calls of two handlers for the same token run
\* concurrently, the store they leave is the one that running them one after
\* the other, in one of the two orders, leaves, and the secret and iv that a
\* successful Upsert generated and returned are the stored ones unless the
\* other request supplied its own.
C27_ConcurrentCallsSerialize ==
    (AllDone /\ SameToken) =>
        /\ devices \in InOrder(handler[1], handler[2]) \cup InOrder(handler[2], handler[1])
        /\ \A h, g \in HandlerIds :
              (h # g /\ Generated(h) /\ handler[g].r.EncodeKey = Empty
                 /\ handler[g].r.IV = Empty) =>
                  /\ devices[Tok(h)].EncodeKey = handler[h].device.EncodeKey
                  /\ devices[Tok(h)].IV = handler[h].device.IV

\* ----------------------------------------------------------------- C28
\* A record Broadcast can encrypt for.
EncryptionReady(d) == isValidKeyLength(d.EncodeKey) /\ Len(d.IV) = IVBytes

\* C28 (as claimed): in every store state that Upsert, UpdateStatus and
\* RegisterDevice calls reach every stored device is encryption-ready (a
\* secret of 16, 24 or 32 characters, an iv of the configured length), so no
\* unit of a Broadcast fails to encrypt for a stored device.
C28_StoredDevicesAreEncryptionReady ==
    /\ \A t \in DOMAIN devices : EncryptionReady(devices[t])
    /\ \A i \in Units : unit[i].encErr = ""

\* ----------------------------------------------------------------- C29
\* Device-service calls made one after the other.
MaxStatusCalls == 3

\* What a sequence of calls leaves in statusCall: call c found the store
\* devices and left the store after.  A call that wrote the record of token t
\* makes t one of the stopped tokens when it is an UpdateStatus to a status
\* other than ACTIVE, and takes t out of them when it names a status itself.
AfterCall(c, after) ==
    LET wrote == {t \in DOMAIN after : t \notin DOMAIN devices \/ after[t] # devices[t]}
        st == ToUpper(TrimSpace(c.r.Status))
        now == IF c.op = "UpdateStatus" /\ st \notin {"", DeviceStatusActive}
               THEN statusCall.stopped \cup wrote
               ELSE IF c.op = "UpdateStatus" \/ (c.op = "Upsert" /\ st # "")
               THEN statusCall.stopped \ ({c.r.DeviceToken} \cup wrote)
               ELSE statusCall.stopped
    IN [n |-> statusCall.n + 1, op |-> c.op, r |-> c.r, before |-> devices,
        stoppedBefore |-> statusCall.stopped, stopped |-> now]

\* One call, from its request to its return, then the next.
StatusCall(c, reg) ==
    /\ statusCall.n < MaxStatusCalls
    /\ devices' = RunAlone(devices, c, reg)
    /\ statusCall' = AfterCall(c, RunAlone(devices, c, reg))
    /\ UNCHANGED <<logVars, nOps, bpc, nCalls, req, pickIdx, targets, lookupFailures,
                   results, successNum, mu, wg, unit, logBase, ret, callerGone, appender,
                   handler, query, cipher, clock>>

StatusUpsert ==
    \E r \in DeviceRequests, reg \in RegisterOutcomes :
        StatusCall([op |-> "Upsert", r |-> r], reg)

StatusUpdate ==
    \E token \in Tokens, status \in UpdateStatusInputs :
        StatusCall([op |-> "UpdateStatus",
                    r |-> [NoDeviceRequest EXCEPT !.DeviceToken = token,
                                                  !.Status = status]],
                   [err |-> "", DeviceKey |-> ""])

StatusRegister ==
    \E token \in Tokens, reg \in RegisterOutcomes :
        StatusCall([op |-> "RegisterDevice",
                    r |-> [NoDeviceRequest EXCEPT !.DeviceToken = token]], reg)

StatusNext == StatusUpsert \/ StatusUpdate \/ StatusRegister
StatusSpec == Init /\ [][StatusNext]_vars

\* The tokens a Broadcast without deviceKeys resolves.
ActiveTokens ==
    {ListActiveDevices(devices)[i].DeviceToken : i \in 1..Len(ListActiveDevices(devices))}

\* C29 (as claimed): a device that UpdateStatus set to a status other than
\* ACTIVE is in no Broadcast without deviceKeys until a call names a status
\* for it; an Upsert for its token that omits the status leaves the stored
\* status as it was.
C29_OmittedStatusKeepsStoredStatus ==
    /\ \A t \in statusCall.stopped : t \in DOMAIN devices /\ t \notin ActiveTokens
    /\ (/\ statusCall.op = "Upsert"
        /\ TrimSpace(statusCall.r.Status) = ""
        /\ statusCall.r.DeviceToken \in statusCall.stoppedBefore) =>
           devices[statusCall.r.DeviceToken].Status =
               statusCall.before[statusCall.r.DeviceToken].Status

\* ----------------------------------------------------------------- C30
\* The ids of the stored entries.
LogIds == DOMAIN noticeLogs

\* sort.Slice with CreatedAt.After as less: an order of all the ids in which
\* no entry comes before a later one.  Entries of the same instant may come
\* in either order (the sort is not stable).
IsNewestFirst(order) ==
    /\ Len(order) = Cardinality(LogIds)
    /\ {order[i] : i \in 1..Len(order)} = LogIds
    /\ \A i, j \in 1..Len(order) :
          i < j => noticeLogs[order[i]].CreatedAt >= noticeLogs[order[j]].CreatedAt

\* The orders filteredLogs can return for a filter that matches every entry.
filteredLogs == {order \in SeqsUpTo(LogIds, Cardinality(LogIds)) : IsNewestFirst(order)}

\* The ids from the highest to the lowest.
DescendingIds == [i \in 1..Cardinality(LogIds) |-> Cardinality(LogIds) + 1 - i]

\* C30 (as claimed): of two stored entries the one with the lower id was not
\* created later, also when they were appended concurrently, so the
\* newest-first order of a log query is the descending-id order.
C30_IdOrderIsTimeOrder ==
    /\ \A a, b \in LogIds :
          a < b => noticeLogs[a].CreatedAt <= noticeLogs[b].CreatedAt
    /\ \A order \in filteredLogs : order = DescendingIds

====
